---- MODULE Spec2Model ----
(***************************************************************************)
(* Graph construction of models/dense_net.py (class DenseNet).             *)
(*                                                                         *)
(* A state is one DenseNet object (its hyperparameters, fixed by           *)
(* __init__) together with the progress of one call of cifar_model_fn on   *)
(* it: the tensor shape flowing through the graph, the primitive           *)
(* operations created so far (each with the variable scope it was created  *)
(* in), the blocks built so far and the EstimatorSpec returned.            *)
(*                                                                         *)
(* Tensors are modelled by their static shape [n, h, w, c] (NHWC).         *)
(* The float `reduction` is the rational reduction / RedDen.               *)
(***************************************************************************)
EXTENDS Integers, Sequences, FiniteSets, TLC

\* ---------------------------------------------------------------- bounds
MaxClasses == 2
MaxGrowth == 2
MaxDepth == 10
MaxBlocks == 7
MaxRedNum == 2
MaxBatch == 2
ImageChannels == 3

\* The inputs drawn: the extreme class counts and batch sizes, every growth
\* rate, depth and block count, and the reductions 1/RedDen ..
\* MaxRedNum/RedDen.
ClassCounts == {1, MaxClasses}
GrowthRates == 1..MaxGrowth
Depths == 1..MaxDepth
BlockCounts == 1..MaxBlocks
Reductions == 1..MaxRedNum
BatchSizes == {1, MaxBatch}

\* self.reduction is a float; it is held as the numerator of a fraction
\* with this denominator.
RedDen == 2

\* ------------------------------------------------------ program constants
ImageSize == 32
NonBcFirstFeatures == 16
BottleneckFactor == 4
TransitionPool == 2

Modes == {"train", "eval", "predict"}

VARIABLES
    self,       \* the DenseNet object's fields
    pc,         \* position of the current cifar_model_fn call
    mode,       \* the mode flag passed to the call
    lpb,        \* cifar_model_fn's local layers_per_block
    output,     \* shape of the tensor `output` / `images`
    block,      \* loop variable of `for block in range(total_blocks)`
    ops,        \* primitive operations added to the graph, in order
    built,      \* blocks entered, in order
    layers,     \* add_layer calls made: inputs and results
    logits,     \* shape [rows, cols] of the logits tensor
    labels_read,\* whether the labels tensor has been used
    returned    \* EstimatorSpec objects returned by this call

vars == <<self, pc, mode, lpb, output, block, ops, built, layers, logits,
          labels_read, returned>>

\* ------------------------------------------------------------- formatting
\* "%d" % n for n >= 0: the decimal digits of n, most significant first.
RECURSIVE FormatD(_)
FormatD(n) == IF n < 10 THEN <<n>> ELSE Append(FormatD(n \div 10), n % 10)

\* One component of a variable-scope path: a literal name, or a name built
\* by "<name>%d" % index.
Scope(name) == <<name, <<>>>>
ScopeD_NoIndex(name, index) == <<name, <<>>>>

ScopeD(name, index) == <<name, FormatD(index)>>

\* ---------------------------------------------------------- primitive ops
Op(name, scope, ksize, in_, out) ==
    [op |-> name, scope |-> scope, ksize |-> ksize, cin |-> in_.c, cout |-> out.c]

Result(out, newops) == [ok |-> TRUE, out |-> out, ops |-> newops]
Failure(shape, newops) == [ok |-> FALSE, out |-> shape, ops |-> newops]

\* conv2d: kernel variable 'kernel' of shape [k, k, in_features, out_features]
\* in the current variable scope; stride 1. SAME keeps the spatial size,
\* VALID gives size - k + 1.
conv2d(input_, out_features, kernel_size, padding, scope) ==
    LET hw(d) == IF padding = "SAME" THEN d ELSE d - kernel_size + 1
        out == [n |-> input_.n, h |-> hw(input_.h), w |-> hw(input_.w),
                c |-> out_features]
    IN  Result(out, <<Op("conv2d", scope, kernel_size, input_, out)>>)

\* avg_pool: window k, stride k, padding VALID. The output size is
\* (size - k) \div k + 1; the framework's shape inference rejects a window
\* larger than the input (size - k < 0), which aborts graph construction.
avg_pool(input_, k, scope) ==
    LET pooled(d) == (d - k) \div k + 1
        out == [n |-> input_.n, h |-> pooled(input_.h), w |-> pooled(input_.w),
                c |-> input_.c]
    IN  IF k >= 1 /\ input_.h >= k /\ input_.w >= k
        THEN Result(out, <<Op("avg_pool", scope, k, input_, out)>>)
        ELSE Failure(input_, <<>>)

batch_norm(input_, scope) ==
    Result(input_, <<Op("batch_norm", scope, 0, input_, input_)>>)

relu(input_, scope) ==
    Result(input_, <<Op("relu", scope, 0, input_, input_)>>)

dropout(input_, scope) ==
    Result(input_, <<Op("dropout", scope, 0, input_, input_)>>)

\* ------------------------------------------------------ composite function
composite_function_ReluFirst(input_, out_features, kernel_size, scope) ==
    LET sc == Append(scope, Scope("composite_function"))
        re == relu(input_, sc)
        bn == batch_norm(re.out, sc)
        cv == conv2d(bn.out, out_features, kernel_size, "SAME", sc)
        dr == dropout(cv.out, sc)
    IN  Result(dr.out, re.ops \o bn.ops \o cv.ops \o dr.ops)

composite_function(input_, out_features, kernel_size, scope) ==
    LET sc == Append(scope, Scope("composite_function"))
        bn == batch_norm(input_, sc)
        re == relu(bn.out, sc)
        cv == conv2d(re.out, out_features, kernel_size, "SAME", sc)
        dr == dropout(cv.out, sc)
    IN  Result(dr.out, bn.ops \o re.ops \o cv.ops \o dr.ops)

bottleneck(input_, out_features, scope) ==
    LET sc == Append(scope, Scope("bottleneck"))
        bn == batch_norm(input_, sc)
        re == relu(bn.out, sc)
        cv == conv2d(re.out, out_features, 1, "VALID", sc)
        dr == dropout(cv.out, sc)
    IN  Result(dr.out, bn.ops \o re.ops \o cv.ops \o dr.ops)

\* tf.concat(axis=3, values=(a, b))
concat3(a, b) == [n |-> a.n, h |-> a.h, w |-> a.w, c |-> a.c + b.c]

add_layer_NarrowBottleneck(bc_mode, input_, out_features, scope) ==
    LET bt == IF bc_mode
              THEN bottleneck(input_, out_features, scope)
              ELSE Result(input_, <<>>)
        cf == composite_function(bt.out, out_features, 3, scope)
        out == concat3(input_, cf.out)
    IN  [ok |-> TRUE, out |-> out, ops |-> bt.ops \o cf.ops,
         layers |-> <<[scope |-> scope, input |-> input_, mid |-> bt.out,
                       conv |-> cf.out, out |-> out]>>]

add_layer(bc_mode, input_, out_features, scope) ==
    LET bt == IF bc_mode
              THEN bottleneck(input_, out_features * BottleneckFactor, scope)
              ELSE Result(input_, <<>>)
        cf == composite_function(bt.out, out_features, 3, scope)
        out == concat3(input_, cf.out)
    IN  [ok |-> TRUE, out |-> out, ops |-> bt.ops \o cf.ops,
         layers |-> <<[scope |-> scope, input |-> input_, mid |-> bt.out,
                       conv |-> cf.out, out |-> out]>>]

\* The loop of add_dense_block, from iteration `layer` on, with `output` the
\* value of the local variable at that point. Every iteration passes the
\* block's input_ to add_layer.
RECURSIVE dense_block_loop(_, _, _, _, _, _, _)
dense_block_loop(bc_mode, input_, output_, growth_rate, layers_per_block, layer, scope) ==
    IF layer >= layers_per_block
    THEN [ok |-> TRUE, out |-> output_, ops |-> <<>>, layers |-> <<>>]
    ELSE LET one == add_layer(bc_mode, input_, growth_rate,
                              Append(scope, ScopeD("layer_", layer)))
             rest == dense_block_loop(bc_mode, input_, one.out, growth_rate,
                                      layers_per_block, layer + 1, scope)
         IN  [ok |-> TRUE, out |-> rest.out, ops |-> one.ops \o rest.ops,
              layers |-> one.layers \o rest.layers]

add_dense_block(bc_mode, input_, growth_rate, layers_per_block, scope) ==
    dense_block_loop(bc_mode, input_, input_, growth_rate, layers_per_block,
                     0, scope)

\* int(out_features * self.reduction): truncation of a non-negative product.
ReducedFeatures(c, reduction) == (c * reduction) \div RedDen

transition_layer_AlwaysReduce(bc_mode, reduction, input_, scope) ==
    LET out_features == ReducedFeatures(input_.c, reduction)
        cf == composite_function(input_, out_features, 1, scope)
        pl == avg_pool(cf.out, TransitionPool, scope)
    IN  IF pl.ok THEN Result(pl.out, cf.ops \o pl.ops)
        ELSE Failure(cf.out, cf.ops)

transition_layer(bc_mode, reduction, input_, scope) ==
    LET out_features == IF bc_mode THEN ReducedFeatures(input_.c, reduction)
                        ELSE input_.c
        cf == composite_function(input_, out_features, 1, scope)
        pl == avg_pool(cf.out, TransitionPool, scope)
    IN  IF pl.ok THEN Result(pl.out, cf.ops \o pl.ops)
        ELSE Failure(cf.out, cf.ops)

\* tf.reshape(t, [-1, cols]): the row count is inferred from the number of
\* elements. For an empty tensor (cols = 0) the outcome depends on the
\* framework version: the row count is inferred from the non-zero
\* dimensions (infer_empty), or the reshape is rejected.
reshape2(input_, cols, infer_empty) ==
    IF cols > 0 /\ (input_.n * input_.h * input_.w * input_.c) % cols = 0
    THEN [ok |-> TRUE,
          out |-> [rows |-> (input_.n * input_.h * input_.w * input_.c) \div cols,
                   cols |-> cols]]
    ELSE IF cols = 0 /\ infer_empty
    THEN [ok |-> TRUE,
          out |-> [rows |-> input_.n * input_.h * input_.w, cols |-> cols]]
    ELSE [ok |-> FALSE, out |-> [rows |-> 0, cols |-> cols]]

fully_connected(input2_, out_dim) == [rows |-> input2_.rows, cols |-> out_dim]

classification_layer_FixedPool(num_classes, input_, scope, infer_empty) ==
    LET bn == batch_norm(input_, scope)
        re == relu(bn.out, scope)
        last_pool_kernel == 8
        pl == avg_pool(re.out, last_pool_kernel, scope)
        features_total == pl.out.c
        rs == reshape2(pl.out, features_total, infer_empty)
    IN  IF ~pl.ok THEN [ok |-> FALSE, ops |-> bn.ops \o re.ops,
                        pooled |-> pl.out, logits |-> [rows |-> 0, cols |-> 0]]
        ELSE IF ~rs.ok THEN [ok |-> FALSE, ops |-> bn.ops \o re.ops \o pl.ops,
                             pooled |-> pl.out, logits |-> rs.out]
        ELSE [ok |-> TRUE, ops |-> bn.ops \o re.ops \o pl.ops,
              pooled |-> pl.out,
              logits |-> fully_connected(rs.out, num_classes)]

classification_layer(num_classes, input_, scope, infer_empty) ==
    LET bn == batch_norm(input_, scope)
        re == relu(bn.out, scope)
        last_pool_kernel == re.out.w
        pl == avg_pool(re.out, last_pool_kernel, scope)
        features_total == pl.out.c
        rs == reshape2(pl.out, features_total, infer_empty)
    IN  IF ~pl.ok THEN [ok |-> FALSE, ops |-> bn.ops \o re.ops,
                        pooled |-> pl.out, logits |-> [rows |-> 0, cols |-> 0]]
        ELSE IF ~rs.ok THEN [ok |-> FALSE, ops |-> bn.ops \o re.ops \o pl.ops,
                             pooled |-> pl.out, logits |-> rs.out]
        ELSE [ok |-> TRUE, ops |-> bn.ops \o re.ops \o pl.ops,
              pooled |-> pl.out,
              logits |-> fully_connected(rs.out, num_classes)]

\* ------------------------------------------------------------ __init__
InitLayersPerBlock(depth, total_blocks, bc_mode) ==
    LET n == (depth - (total_blocks + 1)) \div total_blocks
    IN  IF bc_mode THEN n \div 2 ELSE n

DenseNet(num_classes, growth_rate, depth, bc_mode, total_blocks, reduction) ==
    [num_classes |-> num_classes,
     growth_rate |-> growth_rate,
     depth |-> depth,
     bc_mode |-> bc_mode,
     first_output_features |->
         IF bc_mode THEN growth_rate * 2 ELSE NonBcFirstFeatures,
     total_blocks |-> total_blocks,
     layers_per_block |-> InitLayersPerBlock(depth, total_blocks, bc_mode),
     reduction |-> reduction]

NoShape == [n |-> 0, h |-> 0, w |-> 0, c |-> 0]
NoLogits == [rows |-> 0, cols |-> 0]

Init ==
    /\ \E num_classes \in ClassCounts, growth_rate \in GrowthRates,
          depth \in Depths, bc_mode \in BOOLEAN,
          total_blocks \in BlockCounts, reduction \in Reductions :
          self = DenseNet(num_classes, growth_rate, depth, bc_mode,
                          total_blocks, reduction)
    /\ pc = "idle"
    /\ mode = "train"
    /\ lpb = 0
    /\ output = NoShape
    /\ block = 0
    /\ ops = <<>>
    /\ built = <<>>
    /\ layers = <<>>
    /\ logits = NoLogits
    /\ labels_read = FALSE
    /\ returned = <<>>

\* ------------------------------------------------------ cifar_model_fn
\* Lines 180-195: local layers_per_block, image processing, resize to 32x32.
ModelFnLayersPerBlock(depth, bc_mode) ==
    LET n == (depth - 4) \div 3
    IN  IF bc_mode THEN n \div 2 ELSE n

resize_image_with_crop_or_pad(images, height, width) ==
    [n |-> images.n, h |-> height, w |-> width, c |-> images.c]

Call ==
    /\ pc \in {"idle", "done", "failed"}
    /\ \E m \in Modes, batch \in BatchSizes, size \in {ImageSize - 4, ImageSize} :
          /\ mode' = m
          /\ output' = resize_image_with_crop_or_pad(
                 [n |-> batch, h |-> size, w |-> size, c |-> ImageChannels],
                 ImageSize, ImageSize)
    /\ lpb' = ModelFnLayersPerBlock(self.depth, self.bc_mode)
    /\ pc' = "initial_convolution"
    /\ block' = 0
    /\ ops' = <<>>
    /\ built' = <<>>
    /\ layers' = <<>>
    /\ logits' = NoLogits
    /\ labels_read' = FALSE
    /\ returned' = <<>>
    /\ UNCHANGED self

\* Lines 197-201.
InitialConvolution ==
    /\ pc = "initial_convolution"
    /\ LET r == conv2d(output, self.first_output_features, 3, "SAME",
                       <<Scope("Initial_convolution")>>)
       IN  /\ output' = r.out
           /\ ops' = ops \o r.ops
    /\ pc' = "dense_block"
    /\ UNCHANGED <<self, mode, lpb, block, built, layers, logits, labels_read,
                   returned>>

AfterDenseBlock_AlwaysTransition(blk, total_blocks) == "transition"

\* Line 209: a transition layer follows every dense block but the last.
AfterDenseBlock(blk, total_blocks) ==
    IF blk # total_blocks - 1 THEN "transition" ELSE "classification"

\* Lines 205-207: one iteration's dense block. The loop body is entered
\* while block < total_blocks.
DenseBlock ==
    /\ pc = "dense_block"
    /\ block < self.total_blocks
    /\ LET r == add_dense_block(self.bc_mode, output, self.growth_rate, lpb,
                    <<Scope("DenseNet"), ScopeD("Dense_Block_", block)>>)
       IN  /\ output' = r.out
           /\ ops' = ops \o r.ops
           /\ layers' = layers \o r.layers
           /\ built' = Append(built, [kind |-> "Dense_Block", index |-> block,
                                      ok |-> r.ok, input |-> output,
                                      out |-> r.out,
                                      nlayers |-> Len(r.layers)])
    /\ pc' = AfterDenseBlock(block, self.total_blocks)
    /\ block' = IF AfterDenseBlock(block, self.total_blocks) = "transition"
                THEN block ELSE block + 1
    /\ UNCHANGED <<self, mode, lpb, logits, labels_read, returned>>

\* Lines 209-211.
TransitionLayer ==
    /\ pc = "transition"
    /\ LET r == transition_layer(self.bc_mode, self.reduction, output,
                    <<Scope("DenseNet"), ScopeD("Transition_Layer_", block)>>)
       IN  /\ output' = r.out
           /\ ops' = ops \o r.ops
           /\ built' = Append(built, [kind |-> "Transition_Layer",
                                      index |-> block, ok |-> r.ok,
                                      input |-> output, out |-> r.out,
                                      nlayers |-> 0])
           /\ pc' = IF r.ok THEN "dense_block" ELSE "failed"
    /\ block' = block + 1
    /\ UNCHANGED <<self, mode, lpb, layers, logits, labels_read, returned>>

\* Lines 213-221.
ClassificationLayer ==
    /\ pc = "classification"
    /\ \E infer_empty \in BOOLEAN :
       LET r == classification_layer(self.num_classes, output,
                    <<Scope("DenseNet"), Scope("Classification_Layer")>>,
                    infer_empty)
       IN  /\ output' = r.pooled
           /\ ops' = ops \o r.ops
           /\ logits' = r.logits
           /\ built' = Append(built, [kind |-> "Classification_Layer",
                                      index |-> 0, ok |-> r.ok,
                                      input |-> output, out |-> r.pooled,
                                      nlayers |-> 0])
           /\ pc' = IF r.ok THEN "predictions" ELSE "failed"
    /\ UNCHANGED <<self, mode, lpb, block, layers, labels_read, returned>>

\* tf.estimator.EstimatorSpec(mode, predictions=None, loss=None,
\*                            train_op=None, eval_metric_ops=None)
EstimatorSpec(m, predictions, loss, train_op, eval_metric_ops) ==
    [mode |-> m, predictions |-> predictions, loss |-> loss,
     train_op |-> train_op, eval_metric_ops |-> eval_metric_ops]

Predictions == {"classes", "probabilities"}
None == {}

PredictSpec_LossOnly(m) == EstimatorSpec(m, None, {"loss"}, None, None)

\* Line 224.
PredictSpec(m) == EstimatorSpec(m, Predictions, None, None, None)

EvalSpec_WithTrainOp(m) ==
    EstimatorSpec(m, None, {"loss"}, {"train_op"}, {"accuracy"})

\* Lines 236-237.
EvalSpec(m) == EstimatorSpec(m, None, {"loss"}, None, {"accuracy"})

\* Lines 258-261.
TrainSpec(m) == EstimatorSpec(m, None, {"loss"}, {"train_op"}, None)

\* Lines 223-224.
ReturnPredict ==
    /\ pc = "predictions"
    /\ mode = "predict"
    /\ returned' = Append(returned, PredictSpec(mode))
    /\ pc' = "done"
    /\ UNCHANGED <<self, mode, lpb, output, block, ops, built, layers, logits,
                   labels_read>>

\* Lines 226-233.
Losses ==
    /\ pc = "predictions"
    /\ mode # "predict"
    /\ labels_read' = TRUE
    /\ pc' = "losses"
    /\ UNCHANGED <<self, mode, lpb, output, block, ops, built, layers, logits,
                   returned>>

\* Lines 235-237.
ReturnEval ==
    /\ pc = "losses"
    /\ mode = "eval"
    /\ returned' = Append(returned, EvalSpec(mode))
    /\ pc' = "done"
    /\ UNCHANGED <<self, mode, lpb, output, block, ops, built, layers, logits,
                   labels_read>>

\* Lines 239-261.
ReturnTrain ==
    /\ pc = "losses"
    /\ mode = "train"
    /\ returned' = Append(returned, TrainSpec(mode))
    /\ pc' = "done"
    /\ UNCHANGED <<self, mode, lpb, output, block, ops, built, layers, logits,
                   labels_read>>

Next ==
    \/ Call
    \/ InitialConvolution
    \/ DenseBlock
    \/ TransitionLayer
    \/ ClassificationLayer
    \/ ReturnPredict
    \/ Losses
    \/ ReturnEval
    \/ ReturnTrain

Spec == Init /\ [][Next]_vars

\* ================================================================ claims
Returned == pc = "done"
GraphBuilt == pc \in {"predictions", "losses", "done"}

BlocksOf(kind) == {j \in 1..Len(built) : built[j].kind = kind}

\* The add_layer calls made in scope DenseNet/Dense_Block_b/layer_i.
LayerCalls(b, i) ==
    {j \in 1..Len(layers) :
        layers[j].scope = <<Scope("DenseNet"), ScopeD("Dense_Block_", b),
                            ScopeD("layer_", i)>>}

\* C1: in every dense block built, with c input channels, growth rate k and
\* L layers, the i-th layer (0-based) receives c + i*k channels and the
\* block returns a tensor with c + L*k channels.
C1_DenseConnectivity ==
    \A j \in BlocksOf("Dense_Block") :
        LET c == built[j].input.c
            k == self.growth_rate
            L == built[j].nlayers
        IN  /\ built[j].out.c = c + L * k
            /\ \A i \in 0..(L - 1) :
                  /\ LayerCalls(built[j].index, i) # {}
                  /\ \A m \in LayerCalls(built[j].index, i) :
                        layers[m].input.c = c + i * k

\* C2 as stated: for every mode the returned specification object contains
\* the predictions mapping (classes and probabilities).
C2_PredictionsInEveryMode ==
    \A i \in 1..Len(returned) : returned[i].predictions = Predictions

\* C2 as amended: the returned specification object contains the predictions
\* mapping (classes and probabilities) in predict mode, and no predictions
\* in eval and train mode.
C2_PredictionsOnlyInPredict ==
    \A i \in 1..Len(returned) :
        /\ mode = "predict" => returned[i].predictions = {"classes", "probabilities"}
        /\ mode # "predict" => returned[i].predictions = {}

C2_Witness == Returned /\ mode = "predict" /\ Len(returned) = 1

\* C3: a call returns one specification object, whose mode field is the mode
\* passed in; in predict mode it has no loss, no evaluation metrics and no
\* training operation and the labels are never read; in eval mode it has the
\* loss and the evaluation metrics but no training operation; in train mode
\* it has the loss and the training operation.
C3_ModeBranches ==
    /\ Len(returned) <= 1
    /\ Returned <=> Len(returned) = 1
    /\ mode = "predict" => ~labels_read
    /\ \A i \in 1..Len(returned) :
          LET es == returned[i]
          IN  /\ es.mode = mode
              /\ mode = "predict" =>
                    es.loss = {} /\ es.eval_metric_ops = {} /\ es.train_op = {}
              /\ mode = "eval" =>
                    /\ es.loss = {"loss"}
                    /\ es.eval_metric_ops = {"accuracy"}
                    /\ es.train_op = {}
              /\ mode = "train" =>
                    es.loss = {"loss"} /\ es.train_op = {"train_op"}

C3_Witness == Returned /\ mode = "eval" /\ Len(returned) = 1 /\ labels_read

C5_TransitionShape ==
    \A j \in BlocksOf("Transition_Layer") :
        built[j].ok =>
            LET i == built[j].input
                o == built[j].out
            IN  /\ self.bc_mode =>
                      /\ o.c * RedDen <= i.c * self.reduction
                      /\ i.c * self.reduction < (o.c + 1) * RedDen
                /\ ~self.bc_mode => o.c = i.c
                /\ 2 * o.h <= i.h /\ i.h < 2 * o.h + 2
                /\ 2 * o.w <= i.w /\ i.w < 2 * o.w + 2
                /\ o.n = i.n

C5_Witness ==
    \E j \in BlocksOf("Transition_Layer") :
        /\ built[j].ok
        /\ self.bc_mode
        /\ built[j].out.c < built[j].input.c
        /\ built[j].out.h = 16

IsUnitScope(sc) ==
    /\ Len(sc) >= 1
    /\ sc[Len(sc)] \in {Scope("composite_function"), Scope("bottleneck")}

OpsIn(sc) == {i \in 1..Len(ops) : ops[i].scope = sc}

\* C6: every composite function (3x3 in a dense-block layer, 1x1 in a
\* transition layer) and every bottleneck consists of exactly batch
\* normalization, ReLU, convolution, dropout, once each and in this order.
C6_CompositeOrder ==
    \A i \in 1..Len(ops) :
        IsUnitScope(ops[i].scope) =>
            LET sc == ops[i].scope
                parent == sc[Len(sc) - 1][1]
            IN  IF ops[i].op = "batch_norm"
                THEN /\ OpsIn(sc) = i..(i + 3)
                     /\ ops[i + 1].op = "relu"
                     /\ ops[i + 2].op = "conv2d"
                     /\ ops[i + 3].op = "dropout"
                     /\ ops[i + 2].ksize =
                           IF sc[Len(sc)] = Scope("bottleneck") THEN 1
                           ELSE IF parent = "layer_" THEN 3 ELSE 1
                     /\ parent \in {"layer_", "Transition_Layer_"}
                ELSE \E m \in {i - 3, i - 2, i - 1} \cap (1..Len(ops)) :
                        ops[m].op = "batch_norm" /\ ops[m].scope = sc

C6_Witness ==
    /\ \E i \in 1..Len(ops) :
          /\ ops[i].op = "dropout"
          /\ ops[i].scope[Len(ops[i].scope)] = Scope("bottleneck")
    /\ \E i \in 1..Len(ops) :
          /\ ops[i].op = "dropout"
          /\ Len(ops[i].scope) = 3
          /\ ops[i].scope[2][1] = "Transition_Layer_"

ConvsIn(sc) == {i \in OpsIn(sc) : ops[i].op = "conv2d"}

\* C7: in BC mode every dense-block layer has a 1x1 bottleneck convolution
\* from the layer input to 4 * growth_rate channels, feeding the 3x3
\* composite convolution; without BC mode there is no bottleneck and the 3x3
\* convolution reads the layer input. The 3x3 convolution outputs
\* growth_rate channels and add_layer returns input channels + growth_rate
\* channels at the input's spatial size.
C7_AddLayer ==
    \A m \in 1..Len(layers) :
        LET l == layers[m]
            k == self.growth_rate
            bn == Append(l.scope, Scope("bottleneck"))
            cf == Append(l.scope, Scope("composite_function"))
        IN  /\ Cardinality(ConvsIn(cf)) = 1
            /\ \A j \in ConvsIn(cf) :
                  /\ ops[j].ksize = 3
                  /\ ops[j].cout = k
                  /\ ops[j].cin = IF self.bc_mode THEN 4 * k ELSE l.input.c
            /\ self.bc_mode =>
                  /\ Cardinality(ConvsIn(bn)) = 1
                  /\ \A i \in ConvsIn(bn) :
                        /\ ops[i].ksize = 1
                        /\ ops[i].cin = l.input.c
                        /\ ops[i].cout = 4 * k
                        /\ \A j \in ConvsIn(cf) : i < j
            /\ ~self.bc_mode => OpsIn(bn) = {}
            /\ l.out.c = l.input.c + k
            /\ l.out.h = l.input.h /\ l.out.w = l.input.w /\ l.out.n = l.input.n

C7_Witness == self.bc_mode /\ Len(layers) >= 1 /\ pc = "transition"

\* C8: every dense block is built with the per-block layer count derived by
\* __init__ (self.layers_per_block; no layers when that count is not
\* positive).
C1_Witness ==
    \E j \in BlocksOf("Dense_Block") : built[j].nlayers >= 2

C8_LayersPerBlockAgree ==
    \A j \in BlocksOf("Dense_Block") :
        built[j].nlayers =
            IF self.layers_per_block > 0 THEN self.layers_per_block ELSE 0

C8_Witness ==
    /\ GraphBuilt
    /\ self.total_blocks = 3
    /\ \E j \in BlocksOf("Dense_Block") : built[j].nlayers = 2

RECURSIVE Pow2(_)
Pow2(n) == IF n <= 0 THEN 1 ELSE 2 * Pow2(n - 1)

\* What C9 says of a classification layer entered as event j of `built`.
HeadShape(j) ==
    LET s == 32 \div Pow2(self.total_blocks - 1)
        sc == <<Scope("DenseNet"), Scope("Classification_Layer")>>
    IN  /\ built[j].input.h = s /\ built[j].input.w = s
        /\ s >= 1
        /\ \E i \in OpsIn(sc) : ops[i].op = "avg_pool" /\ ops[i].ksize = s
        /\ built[j].out.h = 1 /\ built[j].out.w = 1

HeadLogits(j) ==
    /\ built[j].ok
    /\ logits.rows = built[j].input.n
    /\ logits.cols = self.num_classes

\* C9 as stated: for every configuration construction reaches the
\* classification layer with a map of size s = 32 // 2^(B-1) >= 1, the head
\* pools with kernel s to 1x1, the reshape keeps one row per image and the
\* logits have num_classes entries per image.
C9_HeadForEveryConfiguration ==
    /\ pc # "failed"
    /\ \A j \in BlocksOf("Classification_Layer") : HeadShape(j) /\ HeadLogits(j)

\* C9 as amended: for every configuration with total_blocks <= 6,
\* construction reaches the classification layer with a map of size
\* s = 32 // 2^(B-1) >= 1 and the head pools with kernel s to 1x1; when that
\* map has at least one channel, the reshape keeps one row per image and the
\* logits have num_classes entries per image. With total_blocks >= 7 a
\* transition layer pools a 1x1 map and construction stops there.
C9_HeadUpToSixBlocks ==
    /\ pc = "failed" =>
          \/ self.total_blocks >= 7 /\ BlocksOf("Classification_Layer") = {}
          \/ /\ BlocksOf("Classification_Layer") # {}
             /\ \A j \in BlocksOf("Classification_Layer") : built[j].input.c = 0
    /\ BlocksOf("Classification_Layer") # {} => self.total_blocks <= 6
    /\ self.total_blocks <= 6 =>
          \A j \in BlocksOf("Transition_Layer") : built[j].ok
    /\ \A j \in BlocksOf("Classification_Layer") :
          /\ HeadShape(j)
          /\ built[j].input.c > 0 => HeadLogits(j)

C9_Witness ==
    /\ GraphBuilt
    /\ self.total_blocks = 6
    /\ logits.rows = 2
    /\ \E j \in BlocksOf("Classification_Layer") : built[j].input.h = 1

\* C10: no two conv2d calls of one graph construction create their 'kernel'
\* variable in the same variable scope, and every such scope is one of
\* Initial_convolution, DenseNet/Dense_Block_b/layer_l/bottleneck,
\* DenseNet/Dense_Block_b/layer_l/composite_function,
\* DenseNet/Transition_Layer_b/composite_function.
C10_KernelScopesDistinct ==
    \A i \in 1..Len(ops) :
        ops[i].op = "conv2d" =>
            LET sc == ops[i].scope
            IN  /\ \A j \in 1..Len(ops) :
                      (ops[j].op = "conv2d" /\ ops[j].scope = sc) => j = i
                /\ \/ sc = <<Scope("Initial_convolution")>>
                   \/ /\ Len(sc) = 4
                      /\ sc[1] = Scope("DenseNet")
                      /\ sc[2][1] = "Dense_Block_" /\ sc[2][2] # <<>>
                      /\ sc[3][1] = "layer_" /\ sc[3][2] # <<>>
                      /\ sc[4] \in {Scope("bottleneck"), Scope("composite_function")}
                   \/ /\ Len(sc) = 3
                      /\ sc[1] = Scope("DenseNet")
                      /\ sc[2][1] = "Transition_Layer_" /\ sc[2][2] # <<>>
                      /\ sc[3] = Scope("composite_function")

C10_Witness ==
    /\ self.bc_mode
    /\ Cardinality({i \in 1..Len(ops) : ops[i].op = "conv2d"}) >= 8
    /\ Cardinality(BlocksOf("Dense_Block")) >= 3

====
